---- MODULE Spec2Model ----
(***************************************************************************)
(* Projective-coordinate point arithmetic of src/main.rs: point_double,    *)
(* point_add and to_affine over unreduced big integers (no modulus).       *)
(*                                                                         *)
(* The three functions are pure; they are modelled as operators, computed  *)
(* line by line as the source computes them.  The state machine applies    *)
(* them to input points p and q the way main does: one point operation on  *)
(* the inputs, then to_affine on the point held.                           *)
(***************************************************************************)
EXTENDS Integers

\* Coordinates of the input points range over -MaxCoord..MaxCoord.
MaxCoord == 2

Coord == (0 - MaxCoord)..MaxCoord

\* struct ProjectivePoint { x, y, z }
ProjectivePoint == [x : Coord, y : Coord, z : Coord]

Pt(a, b, c) == [x |-> a, y |-> b, z |-> c]

\* main's two sample points
point1 == Pt(1, 2, 1)

point2 == Pt(4, 5, 1)

Abs(n) == IF n < 0 THEN 0 - n ELSE n

\* BigInt's `/` : quotient truncated toward zero (d # 0)
BigDiv(n, d) ==
    LET m == Abs(n) \div Abs(d)
    IN  IF (n < 0) = (d < 0) THEN m ELSE 0 - m

\* The a = 0 formulas as the comment in point_double documents them:
\* T = 3X1^2 + aZ1^2 with a = 0, the rest as computed.
point_double_documented(P) ==
    LET t  == 3 * P.x * P.x
        u  == 2 * P.y * P.z
        v  == 2 * u * P.x * P.y
        w  == t * t - 2 * v
        x3 == w * u * u
        y3 == t * (v - w) - 2 * (u * P.y) * (u * P.y)
        z3 == u * u * u
    IN  Pt(x3, y3, z3)

\* point_double with U = 2*Y1 + Z1 (`+` for `*`)
point_double_u_sum(P) ==
    LET t  == (3 * P.x * P.x) * P.z * P.z
        u  == 2 * P.y + P.z
        v  == 2 * u * P.x * P.y
        w  == t * t - 2 * v
        x3 == w * u * u
        y3 == t * (v - w) - 2 * (u * P.y) * (u * P.y)
        z3 == u * u * u
    IN  Pt(x3, y3, z3)

\* point_double with X3 = W*U (one factor U dropped)
point_double_x3_wu(P) ==
    LET t  == (3 * P.x * P.x) * P.z * P.z
        u  == 2 * P.y * P.z
        v  == 2 * u * P.x * P.y
        w  == t * t - 2 * v
        x3 == w * u
        y3 == t * (v - w) - 2 * (u * P.y) * (u * P.y)
        z3 == u * u * u
    IN  Pt(x3, y3, z3)

point_double(P) ==
    LET t  == (3 * P.x * P.x) * P.z * P.z
        u  == 2 * P.y * P.z
        v  == 2 * u * P.x * P.y
        w  == t * t - 2 * v
        x3 == w * u * u
        y3 == t * (v - w) - 2 * (u * P.y) * (u * P.y)
        z3 == u * u * u
    IN  Pt(x3, y3, z3)

\* point_add with U = U0 + U1 (sign slip)
point_add_u_sum(P, Q) ==
    LET t0 == P.y * Q.z
        t1 == Q.y * P.z
        t  == t0 - t1
        u0 == P.x * Q.z
        u1 == Q.x * P.z
        u  == u0 + u1
        u_squared == u * u
        v  == P.z * Q.z
        w  == t * t * v - u_squared * (u0 + u1)
        x3 == w * u_squared
        y3 == t * (u0 * u_squared - w) - t0 * u * u * u
        z3 == u * u_squared
    IN  Pt(x3, y3, z3)

point_add(P, Q) ==
    LET t0 == P.y * Q.z
        t1 == Q.y * P.z
        t  == t0 - t1
        u0 == P.x * Q.z
        u1 == Q.x * P.z
        u  == u0 - u1
        u_squared == u * u
        v  == P.z * Q.z
        w  == t * t * v - u_squared * (u0 + u1)
        x3 == w * u_squared
        y3 == t * (u0 * u_squared - w) - t0 * u * u * u
        z3 == u * u_squared
    IN  Pt(x3, y3, z3)

\* Outcome of a to_affine call: the pair returned, or the panic of BigInt's
\* division when the divisor is zero (the function has no error return).
Returned(a, b) == [status |-> "ok", x |-> a, y |-> b]

Panicked == [status |-> "panic", x |-> 0, y |-> 0]

NotCalled == [status |-> "none", x |-> 0, y |-> 0]

\* to_affine with y taken from p.x (copy slip)
to_affine_y_from_x(P) ==
    IF P.z = 0
    THEN Panicked
    ELSE Returned(BigDiv(P.x, P.z), BigDiv(P.x, P.z))

to_affine(P) ==
    IF P.z = 0
    THEN Panicked
    ELSE Returned(BigDiv(P.x, P.z), BigDiv(P.y, P.z))

VARIABLES p, q, pt, op, aff, pc

vars == <<p, q, pt, op, aff, pc>>

\* Inputs: any two points within the bounds, or main's sample points.
\* pt is the point held (initially the first input), op the point operation
\* that produced it.
Init ==
    /\ \/ /\ p \in ProjectivePoint
          /\ q \in ProjectivePoint
       \/ /\ p = point1
          /\ q = point2
    /\ pt = p
    /\ op = "none"
    /\ aff = NotCalled
    /\ pc = "ready"

Double ==
    /\ pc = "ready"
    /\ op = "none"
    /\ pt' = point_double(p)
    /\ op' = "double"
    /\ UNCHANGED <<p, q, aff, pc>>

Add ==
    /\ pc = "ready"
    /\ op = "none"
    /\ pt' = point_add(p, q)
    /\ op' = "add"
    /\ UNCHANGED <<p, q, aff, pc>>

\* to_affine on the point held; a panic ends the process.
ToAffine ==
    /\ pc = "ready"
    /\ aff' = to_affine(pt)
    /\ pc' = IF aff'.status = "panic" THEN "panicked" ELSE "done"
    /\ UNCHANGED <<p, q, pt, op>>

Next == Double \/ Add \/ ToAffine

Spec == Init /\ [][Next]_vars

(***************************************************************************)
(* Properties                                                              *)
(***************************************************************************)

\* R and P are the same point: equal coordinates, or R has a non-zero Z and
\* denotes the affine point of P.
SamePoint(R, P) ==
    \/ R = P
    \/ /\ R.z # 0
       /\ R.x * P.z = P.x * R.z
       /\ R.y * P.z = P.y * R.z

\* R and S denote the same affine point (cross-multiplied).
SameAffine(R, S) ==
    /\ R.x * S.z = S.x * R.z
    /\ R.y * S.z = S.y * R.z

Scaled(k, P) == Pt(k * P.x, k * P.y, k * P.z)

\* C1: adding an identity point (Z = 0) to a point P with Z # 0, in either
\* order, returns P.
C1_AddIdentity ==
    op = "add" =>
        /\ (p.z # 0 /\ q.z = 0) => SamePoint(pt, p)
        /\ (p.z = 0 /\ q.z # 0) => SamePoint(pt, q)

\* C2: for points with Z # 0 and distinct affine x, point_add(P, Q) and
\* point_add(Q, P) are the same point, or at least have the same to_affine
\* result.
C2_AddCommutes ==
    (op = "add" /\ p.z # 0 /\ q.z # 0 /\ p.x * q.z # q.x * p.z) =>
        \/ pt = point_add(q, p)
        \/ to_affine(pt) = to_affine(point_add(q, p))

\* C3: for P with Y # 0 and Z # 0, to_affine(point_add(P, P)) and
\* to_affine(point_double(P)) both succeed and return the same pair.
C3_AddSelfIsDouble ==
    (op = "add" /\ pc # "ready" /\ q = p /\ p.y # 0 /\ p.z # 0) =>
        /\ aff.status = "ok"
        /\ to_affine(point_double(p)).status = "ok"
        /\ aff = to_affine(point_double(p))

\* C4: to_affine of a point with Z = 0 returns no pair and does not abort:
\* it reports the recoverable error PointAtInfinity.
C4_AffineOfIdentity ==
    (aff.status # "none" /\ pt.z = 0) =>
        /\ aff.status = "PointAtInfinity"
        /\ pc # "panicked"

\* C5: to_affine of the lifted point (x, y, 1) returns exactly (x, y).
C5_RoundTrip ==
    (pc = "done" /\ op = "none" /\ p.z = 1) => aff = Returned(p.x, p.y)

C5_Witness ==
    /\ pc = "done"
    /\ op = "none"
    /\ p = Pt(0 - 2, 1, 1)
    /\ aff = Returned(0 - 2, 1)

\* C6: point_double returns a point with Z3 = 0 whenever Z1 = 0 or
\* U = 2*Y1*Z1 = 0, whatever the other coordinates.
C6_DoubleIdentity ==
    (op = "double" /\ (p.z = 0 \/ 2 * p.y * p.z = 0)) => pt.z = 0

C6_Witness ==
    /\ op = "double"
    /\ p.z # 0
    /\ p.y = 0
    /\ p.x # 0
    /\ pt.z = 0

\* C7: point_add returns a point with Z3 = 0 for points with Z1 # 0, Z2 # 0,
\* U = X1*Z2 - X2*Z1 = 0 and T = Y1*Z2 - Y2*Z1 # 0 (inverse points).
C7_AddInverses ==
    (/\ op = "add"
     /\ p.z # 0
     /\ q.z # 0
     /\ p.x * q.z - q.x * p.z = 0
     /\ p.y * q.z - q.y * p.z # 0) => pt.z = 0

C7_Witness ==
    /\ op = "add"
    /\ p = Pt(1, 1, 1)
    /\ q = Pt(2, 0 - 2, 2)
    /\ pt.z = 0

\* C8 as stated: doubling (1, 2, 1) yields X = 588 and to_affine of the
\* result has x = 588.
C8_Original ==
    (op = "double" /\ p = point1) =>
        /\ pt.x = 588
        /\ (pc # "ready" => (aff.status = "ok" /\ aff.x = 588))

\* C8 (amended): doubling (1, 2, 1) yields X = -368 and to_affine of the
\* result has x = -5.
C8_DoublePoint1 ==
    (op = "double" /\ p = point1) =>
        /\ pt.x = 0 - 368
        /\ (pc # "ready" => (aff.status = "ok" /\ aff.x = 0 - 5))

C8_Witness ==
    /\ op = "double"
    /\ p = point1
    /\ pc = "done"
    /\ pt = Pt(0 - 368, 0 - 11, 64)

\* C9: for every input, point_double returns exactly the point of the a = 0
\* formulas with T = 3*X1^2.
C9_DoubleFormula ==
    op = "double" => pt = point_double_documented(p)

\* C10: point_double respects projective equivalence: for P with Y # 0,
\* Z # 0 and k # 0, point_double(P) and point_double(kP) denote the same
\* affine point.
C10_DoubleProjective ==
    (/\ op = "double"
     /\ p.y # 0
     /\ p.z # 0
     /\ \E k \in Coord \ {0} : q = Scaled(k, p)) =>
        SameAffine(point_double(q), pt)

====
